---- MODULE Spec2Model ----
(***************************************************************************)
(* Model of the image-service MCP server (the variant with the size cache, *)
(* src/unnamed/part_000): the process-wide size cache, its refresh from    *)
(* the category-list endpoint, and the six tool handlers, interleaved at   *)
(* their await points.                                                     *)
(***************************************************************************)
EXTENDS Integers, Sequences, FiniteSets, TLC

(* ------------------------------ bounds -------------------------------- *)
MaxCalls == 2
MaxInvocations == 3
MaxTicks == 2
MaxCategories == 2

(* --------------------------- optional values --------------------------- *)
\* `undefined` is the empty sequence, a defined value v is <<v>>.
None == <<>>
Some(v) == <<v>>
IsSome(o) == o # <<>>
Get(o) == o[1]

(* ------------------------------ the clock ------------------------------ *)
fiveMinutesInMs == 5 * 60 * 1000
TickSteps == {1, fiveMinutesInMs}

(* ------------------------- category-list bodies ------------------------ *)
Size(n, w) == [name |-> n, width |-> w, height |-> w, mimeType |-> "image/webp", isNull |-> FALSE]
\* a `null` element of a sizes array: reading its .name throws
NullSize == [name |-> "", width |-> 0, height |-> 0, mimeType |-> "", isNull |-> TRUE]
Category(n, s) == [name |-> n, sizes |-> s]

SampleCategories ==
  { Category("avatar", <<Size("small", 1), Size("large", 1)>>),
    Category("banner", <<Size("small", 1), Size("small", 2)>>),
    Category("", <<Size("large", 2)>>),
    Category("banner", <<Size("large", 2), NullSize>>) }

RECURSIVE SeqsUpTo(_, _)
SeqsUpTo(S, n) ==
  IF n = 0 THEN {<<>>}
  ELSE LET shorter == SeqsUpTo(S, n - 1)
       IN  shorter \cup {Append(s, x) : s \in {t \in shorter : Len(t) = n - 1}, x \in S}

CategoryLists == SeqsUpTo(SampleCategories, MaxCategories)

(* ----------------------------- the cache ------------------------------- *)
Put(m, k, v) == [x \in (DOMAIN m) \cup {k} |-> IF x = k THEN v ELSE m[x]]
EmptyMap == [x \in {} |-> 0]

\* mutant of addSizes: an entry already present is kept
RECURSIVE addSizes_FirstWins(_, _)
addSizes_FirstWins(sizes, acc) ==
  IF sizes = <<>> \/ acc.threw THEN acc
  ELSE IF Head(sizes).isNull THEN [threw |-> TRUE, map |-> acc.map]
  ELSE addSizes_FirstWins(Tail(sizes),
         [threw |-> FALSE,
          map |-> IF Head(sizes).name \in DOMAIN acc.map THEN acc.map
                  ELSE Put(acc.map, Head(sizes).name, Head(sizes))])

\* inner loop: for (const size of category.sizes) localSizeCache[size.name] = size
RECURSIVE addSizes(_, _)
addSizes(sizes, acc) ==
  IF sizes = <<>> \/ acc.threw THEN acc
  ELSE IF Head(sizes).isNull THEN [threw |-> TRUE, map |-> acc.map]
  ELSE addSizes(Tail(sizes),
                [threw |-> FALSE, map |-> Put(acc.map, Head(sizes).name, Head(sizes))])

\* outer loop: for (const category of categories) if (category.name ...) {...}
RECURSIVE buildLocalSizeCache(_, _)
buildLocalSizeCache(categories, acc) ==
  IF categories = <<>> \/ acc.threw THEN acc
  ELSE IF Head(categories).name # ""
       THEN buildLocalSizeCache(Tail(categories), addSizes(Head(categories).sizes, acc))
       ELSE buildLocalSizeCache(Tail(categories), acc)

InitialBuild == [threw |-> FALSE, map |-> EmptyMap]

(* ------------------------------ responses ------------------------------ *)
\* kind: "transportError" fetch rejects; "nonOk" status outside 2xx; "badJson"
\* 2xx whose body response.json() rejects; "notIterable" 2xx whose JSON is not
\* an array (category list only); "ok" 2xx with the JSON given by the fields.
NoMetadata == [id |-> "", category |-> "", resizedFiles |-> None]
Resp(k, cats, md, u) == [kind |-> k, categories |-> cats, metadata |-> md, url |-> u]
Failure(k) == Resp(k, <<>>, NoMetadata, None)
NoResponse == Failure("none")

Metadata(i, f) == [id |-> i, category |-> "avatar", resizedFiles |-> f]
Metadatas ==
  { Metadata("", None) } \cup
  { Metadata("img1", f) : f \in {None, Some(<<>>), Some(<<"small", "thumb">>)} }

CategoryListResponses ==
  {Failure(k) : k \in {"transportError", "nonOk", "badJson", "notIterable"}}
    \cup {Resp("ok", b, NoMetadata, None) : b \in CategoryLists}
MetadataResponses ==
  {Failure(k) : k \in {"transportError", "nonOk", "badJson"}}
    \cup {Resp("ok", <<>>, m, None) : m \in Metadatas}
ResizedResponses ==
  {Failure(k) : k \in {"transportError", "nonOk", "badJson"}}
    \cup {Resp("ok", <<>>, NoMetadata, u) : u \in {None, Some(""), Some("https://x/y")}}

(* ---------------------------- getCategories ---------------------------- *)
\* The outcome of getCategories once the response to GET /api/size/list is in:
\* the new sizeCache and lastUpdatedAt, the returned value (None for null) and
\* whether an exception left the function (its try/catch lets none out).
Swallowed(cache, lua) ==
  [sizeCache |-> cache, lastUpdatedAt |-> lua, ret |-> None, threw |-> FALSE]

\* mutant of getCategories: the new entries are added to the mapping in place
getCategories_Merge(r, cache, lua, t) ==
  IF r.kind # "ok" THEN Swallowed(cache, lua)
  ELSE LET b == buildLocalSizeCache(r.categories,
                  [threw |-> FALSE, map |-> IF IsSome(cache) THEN Get(cache) ELSE EmptyMap])
       IN  IF b.threw THEN Swallowed(cache, lua)
           ELSE [sizeCache |-> Some(b.map), lastUpdatedAt |-> Some(t),
                 ret |-> Some(r.categories), threw |-> FALSE]

\* mutant of getCategories: a mapping loaded in the last 5 minutes is kept
getCategories_SkipWhenRecent(r, cache, lua, t) ==
  IF r.kind # "ok" THEN Swallowed(cache, lua)
  ELSE LET b == buildLocalSizeCache(r.categories, InitialBuild)
       IN  IF b.threw THEN Swallowed(cache, lua)
           ELSE IF IsSome(lua) /\ t - Get(lua) <= fiveMinutesInMs
                THEN [sizeCache |-> cache, lastUpdatedAt |-> lua,
                      ret |-> Some(r.categories), threw |-> FALSE]
                ELSE [sizeCache |-> Some(b.map), lastUpdatedAt |-> Some(t),
                      ret |-> Some(r.categories), threw |-> FALSE]

\* mutant of getCategories: the time of the refresh is not recorded
getCategories_NoTimestamp(r, cache, lua, t) ==
  IF r.kind # "ok" THEN Swallowed(cache, lua)
  ELSE LET b == buildLocalSizeCache(r.categories, InitialBuild)
       IN  IF b.threw THEN Swallowed(cache, lua)
           ELSE [sizeCache |-> Some(b.map), lastUpdatedAt |-> lua,
                 ret |-> Some(r.categories), threw |-> FALSE]

\* mutant of getCategories: a mapping once loaded is not replaced
getCategories_FirstWins(r, cache, lua, t) ==
  IF r.kind # "ok" THEN Swallowed(cache, lua)
  ELSE LET b == buildLocalSizeCache(r.categories, InitialBuild)
       IN  IF b.threw THEN Swallowed(cache, lua)
           ELSE [sizeCache |-> IF IsSome(cache) THEN cache ELSE Some(b.map),
                 lastUpdatedAt |-> Some(t), ret |-> Some(r.categories), threw |-> FALSE]

\* mutant of getCategories: a failure drops the mapping
getCategories_ClearOnFailure(r, cache, lua, t) ==
  LET b == buildLocalSizeCache(r.categories, InitialBuild)
  IN  IF r.kind # "ok" \/ b.threw THEN Swallowed(None, lua)
      ELSE [sizeCache |-> Some(b.map), lastUpdatedAt |-> Some(t),
            ret |-> Some(r.categories), threw |-> FALSE]

\* mutant of getCategories: no try/catch, a failure leaves as an exception
getCategories_Rethrow(r, cache, lua, t) ==
  LET b == buildLocalSizeCache(r.categories, InitialBuild)
  IN  IF r.kind # "ok" \/ b.threw
      THEN [sizeCache |-> cache, lastUpdatedAt |-> lua, ret |-> None, threw |-> TRUE]
      ELSE [sizeCache |-> Some(b.map), lastUpdatedAt |-> Some(t),
            ret |-> Some(r.categories), threw |-> FALSE]

getCategories(r, cache, lua, t) ==
  IF r.kind # "ok" THEN Swallowed(cache, lua)
  ELSE LET b == buildLocalSizeCache(r.categories, InitialBuild)
       IN  IF b.threw THEN Swallowed(cache, lua)
           ELSE [sizeCache |-> Some(b.map), lastUpdatedAt |-> Some(t),
                 ret |-> Some(r.categories), threw |-> FALSE]

(* ----------------------------- getSizeCache ---------------------------- *)
\* mutant of isStaleOrMissing: >= for >
isStaleOrMissing_OffByOne(cache, laa, t) ==
  \/ cache = None
  \/ laa = None
  \/ Get(laa) = 0
  \/ t - Get(laa) >= fiveMinutesInMs

\* mutant of isStaleOrMissing: < for >
isStaleOrMissing_Inverted(cache, laa, t) ==
  \/ cache = None
  \/ laa = None
  \/ Get(laa) = 0
  \/ t - Get(laa) < fiveMinutesInMs

\* !sizeCache || !lastAccessedAt || now - lastAccessedAt > fiveMinutesInMs
isStaleOrMissing(cache, laa, t) ==
  \/ cache = None
  \/ laa = None
  \/ Get(laa) = 0
  \/ t - Get(laa) > fiveMinutesInMs

(* ------------------------------ result text ---------------------------- *)
\* A text is a sequence of lines; a line is a record of the template line it
\* instantiates (k) and the values interpolated into it.
Line(k, str, w, h, m) == [k |-> k, s |-> str, w |-> w, h |-> h, m |-> m]
Plain(k, str) == Line(k, str, 0, 0, "")

\* mutant of sizeLines: the cache is not consulted
RECURSIVE sizeLines_NoLookup(_, _)
sizeLines_NoLookup(resizedFiles, cache) ==
  IF resizedFiles = <<>> THEN <<>>
  ELSE <<Plain("sizeName", Head(resizedFiles))>> \o sizeLines_NoLookup(Tail(resizedFiles), cache)

\* for (const resizedFile of metadata.resizedFiles): one line each
RECURSIVE sizeLines(_, _)
sizeLines(resizedFiles, cache) ==
  IF resizedFiles = <<>> THEN <<>>
  ELSE LET n == Head(resizedFiles)
           line == IF IsSome(cache) /\ n \in DOMAIN Get(cache)
                   THEN Line("sizeWithDimensions", n, Get(cache)[n].width, Get(cache)[n].height, "")
                   ELSE Plain("sizeName", n)
       IN  <<line>> \o sizeLines(Tail(resizedFiles), cache)

hasResizedFiles(metadata) ==
  IsSome(metadata.resizedFiles) /\ Len(Get(metadata.resizedFiles)) > 0

\* buildImageMetadataResponseText, given what getSizeCache returned
buildImageMetadataResponseText(metadata, label, cache) ==
  << Plain("heading", label), Plain("imageId", metadata.id), Plain("category", metadata.category) >>
    \o (IF hasResizedFiles(metadata)
        THEN <<Plain("availableSizes", "")>> \o sizeLines(Get(metadata.resizedFiles), cache)
        ELSE <<Plain("noResizedFiles", "")>>)

\* the transcode_image handler formats its text inline, with a loop of its own
RECURSIVE transcodeSizeLines(_, _)
transcodeSizeLines(resizedFiles, cache) ==
  IF resizedFiles = <<>> THEN <<>>
  ELSE LET size == Head(resizedFiles)
           sizeInfo == IF IsSome(cache) /\ size \in DOMAIN Get(cache) THEN Some(Get(cache)[size])
                       ELSE None
       IN  << IF IsSome(sizeInfo)
              THEN Line("sizeWithDimensions", size, Get(sizeInfo).width, Get(sizeInfo).height, "")
              ELSE Plain("sizeName", size) >>
             \o transcodeSizeLines(Tail(resizedFiles), cache)

\* metadata.resizedFiles && metadata.resizedFiles.length > 0, in that handler
transcodeHasResizedFiles(metadata) ==
  metadata.resizedFiles # None /\ Len(Get(metadata.resizedFiles)) > 0

\* mutant of transcodeResponseText: the sizes are listed without the cache
transcodeResponseText_BareNames(metadata, cache) ==
  << Plain("heading", "Image Transcode Result"), Plain("imageId", metadata.id),
     Plain("category", metadata.category) >>
    \o (IF transcodeHasResizedFiles(metadata)
        THEN <<Plain("availableSizes", "")>>
               \o [i \in 1..Len(Get(metadata.resizedFiles)) |->
                     Plain("sizeName", Get(metadata.resizedFiles)[i])]
        ELSE <<Plain("noResizedFiles", "")>>)

\* the text of the transcode_image handler, given what getSizeCache returned
transcodeResponseText(metadata, cache) ==
  << Plain("heading", "Image Transcode Result"), Plain("imageId", metadata.id),
     Plain("category", metadata.category) >>
    \o (IF transcodeHasResizedFiles(metadata)
        THEN <<Plain("availableSizes", "")>>
               \o transcodeSizeLines(Get(metadata.resizedFiles), cache)
        ELSE <<Plain("noResizedFiles", "")>>)

RECURSIVE categorySizeLines(_)
categorySizeLines(sizes) ==
  IF sizes = <<>> THEN <<>>
  ELSE LET z == Head(sizes)
       IN  << Line("categorySize", IF z.name = "" THEN "Unknown" ELSE z.name,
                   z.width, z.height, IF z.mimeType = "" THEN "Unknown" ELSE z.mimeType) >>
             \o categorySizeLines(Tail(sizes))

categoryLines(category) ==
  << Plain("categoryHeading", IF category.name = "" THEN "Unknown" ELSE category.name) >>
    \o (IF Len(category.sizes) > 0
        THEN <<Plain("availableSizes", "")>> \o categorySizeLines(category.sizes)
        ELSE <<Plain("noSizes", "")>>)

(* -------------------------------- results ------------------------------ *)
\* returned = FALSE: the handler's promise resolved with no value (undefined)
NoResult == [returned |-> FALSE, isError |-> FALSE, text |-> <<>>]
TextResult(t) == [returned |-> TRUE, isError |-> FALSE, text |-> t]
ErrorResult(msg) == [returned |-> TRUE, isError |-> TRUE, text |-> <<Plain("error", msg)>>]

\* the message of the exception a failed primary request raises
failureMessage(k, prefix) ==
  CASE k = "transportError" -> "fetch failed"
    [] k = "nonOk" -> prefix
    [] OTHER -> "Unexpected token"

\* list_categories, from the value getCategories returned
listCategoriesResult(g) ==
  IF g.threw THEN ErrorResult("Error loading size cache")
  ELSE IF g.ret = None THEN TextResult(<<Plain("noCategories", "")>>)
  ELSE LET categories == Get(g.ret)
           found == <<Line("found", "", Len(categories), 0, "")>>
       IN  IF categories = <<>> THEN NoResult
           ELSE IF \E i \in 1..Len(Head(categories).sizes) : Head(categories).sizes[i].isNull
                THEN ErrorResult("Cannot read properties of null")
                ELSE TextResult(found \o categoryLines(Head(categories)))

(* ------------------------------ the tools ------------------------------ *)
Calls == 1..MaxCalls
MetadataTools == {"get_image_metadata", "transcode_image"}
UploadTools == {"upload_image", "upload_and_resize_image"}
Tools == MetadataTools \cup UploadTools \cup {"list_categories", "get_resized_image"}

\* the arguments every invocation is made with
imageServiceId == "img1"
sizeArg == "small"
categoryArg == "avatar"

\* "/tmp/cat.png", split at "/"
filenameArg == <<"", "tmp", "cat.png">>
\* what readFile resolves with
fileBuffer == "bytes of cat.png"

\* the arguments of a makeApiCall call: the endpoint (a path, in pieces) and the
\* options: method (fetch's default is GET), headers (none is passed), body
Request(method, path) ==
  [method |-> method, path |-> path, headers |-> EmptyMap, body |-> None]
NoRequest == [url |-> <<>>, method |-> "", headers |-> EmptyMap, body |-> None]
categoryListRequest == Request("GET", <<"/api/size/list">>)

\* `${resize}` of a boolean
boolText(b) == IF b THEN "true" ELSE "false"

\* filename.split("/").pop() || "image"
baseName(filename) ==
  IF filename[Len(filename)] = "" THEN "image" ELSE filename[Len(filename)]

\* formData.append("image", new Blob([fileBuffer], {type}), fileName)
FormData(bytes, name) ==
  [field |-> "image", blob |-> bytes, type |-> "application/octet-stream", fileName |-> name]

\* mutant of uploadRequest: the flag is sent negated
uploadRequest_FlagNegated(category, filename, bytes, resize) ==
  [ Request("POST", <<"/api/image/", category, "?forceImmediateResize=", boolText(~resize)>>)
      EXCEPT !.body = Some(FormData(bytes, baseName(filename))) ]

\* the request uploadImage(category, filename, resize) issues once the file is read
uploadRequest(category, filename, bytes, resize) ==
  [ Request("POST", <<"/api/image/", category, "?forceImmediateResize=", boolText(resize)>>)
      EXCEPT !.body = Some(FormData(bytes, baseName(filename))) ]

\* the third argument the two upload handlers pass to uploadImage
resizeArg(t) == t = "upload_and_resize_image"

\* the request a handler issues first (uploads: after the file is read)
primaryRequest(t) ==
  CASE t = "get_image_metadata" -> Request("GET", <<"/api/image/", imageServiceId>>)
    [] t = "transcode_image" -> Request("POST", <<"/api/image/", imageServiceId, "/transcode">>)
    [] t = "get_resized_image" -> Request("GET", <<"/api/image/s/", imageServiceId, "/", sizeArg>>)
    [] t = "list_categories" -> categoryListRequest
    [] OTHER -> uploadRequest(categoryArg, filenameArg, fileBuffer, resizeArg(t))

\* mutant of makeApiCall: the endpoint is fetched as it is, without the base URL
makeApiCall_NoBase(base, key, request) ==
  [url |-> request.path, method |-> request.method,
   headers |-> request.headers @@ ("X-API-Key" :> key), body |-> request.body]

\* makeApiCall: the fetch it issues: url = `${baseUrl}${endpoint}`,
\* headers = {"X-API-Key": apiKey, ...options.headers}
makeApiCall(base, key, request) ==
  [url |-> base \o request.path, method |-> request.method,
   headers |-> request.headers @@ ("X-API-Key" :> key), body |-> request.body]

label(t) ==
  CASE t = "get_image_metadata" -> "Image Metadata"
    [] t = "transcode_image" -> "Image Transcode Result"
    [] t = "upload_and_resize_image" -> "Image uploaded and resized"
    [] OTHER -> "Image uploaded"

failurePrefix(t) ==
  CASE t = "get_image_metadata" -> "Failed to get image metadata"
    [] t = "transcode_image" -> "Failed to transcode image"
    [] t = "get_resized_image" -> "Failed to get resized image URL"
    [] OTHER -> "Failed to upload image"

\* mutant of callsGetSizeCache: getSizeCache is called before the guard
callsGetSizeCache_Unguarded(t, metadata) == t # "get_resized_image"

\* does the handler of tool t, holding the metadata, call getSizeCache
callsGetSizeCache(t, metadata) ==
  CASE t = "get_resized_image" -> FALSE
    [] t = "transcode_image" -> transcodeHasResizedFiles(metadata)
    [] OTHER -> hasResizedFiles(metadata)

\* the text the handler of tool t returns, given what getSizeCache returned
responseText(t, metadata, cache) ==
  IF t = "transcode_image" THEN transcodeResponseText(metadata, cache)
  ELSE buildImageMetadataResponseText(metadata, label(t), cache)

PrimaryResponses(t) == IF t = "get_resized_image" THEN ResizedResponses ELSE MetadataResponses

\* does the handler's try block throw on this response to its primary request
primaryThrows(t, r) ==
  \/ r.kind # "ok"
  \/ t \in UploadTools /\ (r.metadata.id = "" \/ r.metadata.category = "")

primaryError(t, r) ==
  IF r.kind # "ok" THEN ErrorResult(failureMessage(r.kind, failurePrefix(t)))
  ELSE ErrorResult("Invalid response format: missing required fields")

\* JSON.stringify(parsedResponse, null, 2) of {} or {"url": ...}
rawJson(r) ==
  IF IsSome(r.url) THEN Line("rawJson", Get(r.url), 0, 0, "url") ELSE Plain("rawJson", "")

\* mutant of getResizedImageResult: a response without a URL is an error
getResizedImageResult_NoUrlIsError(r) ==
  IF IsSome(r.url) /\ Get(r.url) # ""
  THEN TextResult(<< Plain("heading", "Resized Image URL"), Plain("imageUuid", imageServiceId),
                     Plain("requestedSize", sizeArg), Plain("downloadUrl", Get(r.url)),
                     Plain("signedUrlNote", "") >>)
  ELSE ErrorResult("No URL found in the response")

\* get_resized_image on a 2xx JSON body: if (parsedResponse && parsedResponse.url)
getResizedImageResult(r) ==
  IF IsSome(r.url) /\ Get(r.url) # ""
  THEN TextResult(<< Plain("heading", "Resized Image URL"), Plain("imageUuid", imageServiceId),
                     Plain("requestedSize", sizeArg), Plain("downloadUrl", Get(r.url)),
                     Plain("signedUrlNote", "") >>)
  ELSE TextResult(<<rawJson(r)>>)

\* mutant of accessedAt: the access time is set once and never moved
accessedAt_OnlyFirst(laa, t) == IF laa = None THEN Some(t) ELSE laa

\* lastAccessedAt = Date.now() at the end of getSizeCache
accessedAt(laa, t) == Some(t)

\* mutant of afterPrimary: a failed request is issued again
afterPrimary_RetryOnFailure(t, failed, refresh) ==
  IF failed THEN [pc |-> "primary", request |-> Some(primaryRequest(t))]
  ELSE IF refresh THEN [pc |-> "refresh", request |-> Some(categoryListRequest)]
  ELSE [pc |-> "done", request |-> None]

\* where the handler goes once its primary request has settled: into the
\* refresh request of getSizeCache, or to its return; a failure is not retried
afterPrimary(t, failed, refresh) ==
  IF refresh THEN [pc |-> "refresh", request |-> Some(categoryListRequest)]
  ELSE [pc |-> "done", request |-> None]

\* mutant of afterReadFile: nothing handles the rejection of a failed read
afterReadFile_Unhandled(t, ok) ==
  IF ok THEN [pc |-> "primary", request |-> Some(primaryRequest(t)), result |-> NoResult]
  ELSE [pc |-> "rejected", request |-> None, result |-> NoResult]

\* mutant of afterReadFile: the upload is sent although the file was not read
afterReadFile_UploadAnyway(t, ok) ==
  [pc |-> "primary", request |-> Some(primaryRequest(t)), result |-> NoResult]

\* uploadImage once readFile has settled: the upload request, or (readFile
\* rejected) the handler's catch block and its return
afterReadFile(t, ok) ==
  IF ok THEN [pc |-> "primary", request |-> Some(primaryRequest(t)), result |-> NoResult]
  ELSE [pc |-> "done", request |-> None, result |-> ErrorResult("ENOENT")]

\* the handler's result once getSizeCache is back, g the outcome of the refresh
afterRefreshResult(t, md, g) ==
  IF g.threw THEN ErrorResult("Error loading size cache")
  ELSE TextResult(responseText(t, md, g.sizeCache))

(* ---------------------------- configuration ---------------------------- *)
\* A configured string is a sequence of pieces, " " a piece of whitespace.
serviceUrl == <<"http://svc">>
serviceKey == <<"key-0123", "4567">>

\* configString(key, default): the provider's value when it has the key
configString(provided, default) == IF IsSome(provided) THEN Get(provided) ELSE default
\* process.argv?.[n] || ""
argOrEmpty(arg) == IF IsSome(arg) THEN Get(arg) ELSE <<>>

\* the characters trim() removes
Whitespace == {" ", "\n", "\t", "\r"}
RECURSIVE trimStart(_)
trimStart(str) == IF str # <<>> /\ Head(str) \in Whitespace THEN trimStart(Tail(str)) ELSE str
RECURSIVE trimEnd(_)
trimEnd(str) ==
  IF str # <<>> /\ str[Len(str)] \in Whitespace THEN trimEnd(SubSeq(str, 1, Len(str) - 1)) ELSE str
trim(str) == trimEnd(trimStart(str))

\* mutant of baseUrlMissing: the test is baseUrl === ""
baseUrlMissing_NoTrim(url) == url = <<>>

\* baseUrl.trim() === ""
baseUrlMissing(url) == trim(url) = <<>>

\* a line of the log: its level, the template it instantiates, the value in it
LogLine(level, k, v) == [level |-> level, k |-> k, v |-> v]
\* apiKey.substring(0, 8): the key's first piece holds its first 8 characters
first8(key) == IF key = <<>> THEN <<>> ELSE <<Head(key)>>

\* what the provider holds and what the command line gives
ProvidedUrls == {None, Some(serviceUrl)}
ArgUrls == {None, Some(<<" ">>), Some(<<" ", " ">>), Some(serviceUrl)}
ProvidedKeys == {None, Some(serviceKey)}
ArgKeys == {Some(serviceKey)}

(* =============== the server variant that normalises responses ========== *)
(* src/src/index.ts: every handler reads the response body as text and, in  *)
(* the same inline code, turns a failure status or an unparsable body into  *)
(* the message of the error it raises.                                      *)
(* Response bodies are sequences of characters.                             *)

preOpen ==
  << "<", "p", "r", "e", ">" >>

preClose ==
  << "<", "/", "p", "r", "e", ">" >>

nbsp ==
  << "&", "n", "b", "s", "p", ";" >>

apos ==
  << "&", "#", "3", "9", ";" >>

nullText ==
  << "n", "u", "l", "l" >>

notJsonBody ==
  << "n", "o", "t", " ", "j", "s", "o", "n" >>

htmlPreBody ==
  << "<", "h", "t", "m", "l", ">", "<", "p", "r", "e", ">", "I", "n", "t", "e", "r", "n", "a",
     "l", " ", "E", "r", "r", "o", "r", "<", "/", "p", "r", "e", ">", "<", "/", "h", "t", "m",
     "l", ">" >>

htmlMarkupBody ==
  << "<", "h", "t", "m", "l", ">", "<", "p", "r", "e", ">", " ", "a", "<", "b", "r", ">", "b",
     "<", "b", "r", " ", "/", ">", "c", "&", "n", "b", "s", "p", ";", "d", "&", "#", "3", "9",
     ";", "e", "<", "b", "r", "/", ">", " ", "<", "/", "p", "r", "e", ">", "<", "p", "r", "e",
     ">", "z", "<", "/", "p", "r", "e", ">", "<", "/", "h", "t", "m", "l", ">" >>

htmlNoPreBody ==
  << "<", "h", "t", "m", "l", ">", "o", "o", "p", "s", "<", "/", "h", "t", "m", "l", ">" >>

htmlOpenPreBody ==
  << "<", "p", "r", "e", ">", "n", "e", "v", "e", "r", " ", "c", "l", "o", "s", "e", "d" >>
\* responseText.substring(0, 200) of the "Invalid JSON response" message
invalidJsonShown == 200
\* more characters than that, and not JSON
longBody == [i \in 1..(invalidJsonShown + 1) |-> "x"]

(* ------------------------------ string methods ------------------------- *)
\* text.substring(0, n)
substring0(text, n) == SubSeq(text, 1, IF Len(text) < n THEN Len(text) ELSE n)

OccursAt(text, pattern, i) ==
  /\ i + Len(pattern) - 1 <= Len(text)
  /\ SubSeq(text, i, i + Len(pattern) - 1) = pattern

\* text.indexOf(pattern, from), 1-based; 0 when there is none
indexOf(text, pattern, from) ==
  LET I == {i \in from..Len(text) : OccursAt(text, pattern, i)}
  IN  IF I = {} THEN 0 ELSE CHOOSE i \in I : \A j \in I : i <= j

\* mutant of matchPre: the greedy /<pre>(.*)<\/pre>/s, up to the last </pre>
matchPre_Greedy(text) ==
  LET i == indexOf(text, preOpen, 1)
      J == {j \in (i + Len(preOpen))..Len(text) : OccursAt(text, preClose, j)}
  IN  IF i = 0 \/ J = {} THEN None
      ELSE Some(SubSeq(text, i + Len(preOpen), (CHOOSE j \in J : \A k \in J : k <= j) - 1))

\* text.match(/<pre>(.*?)<\/pre>/s): None for no match, else Some(group 1)
matchPre(text) ==
  LET i == indexOf(text, preOpen, 1)
      j == IF i = 0 THEN 0 ELSE indexOf(text, preClose, i + Len(preOpen))
  IN  IF j = 0 THEN None ELSE Some(SubSeq(text, i + Len(preOpen), j - 1))

\* the length of the match of /<br\s*\/?>/ at position i; 0 when there is none
brMatchLen(text, i) ==
  IF ~OccursAt(text, <<"<", "b", "r">>, i) THEN 0
  ELSE LET rest == {k \in (i + 3)..Len(text) : text[k] \notin Whitespace}
           k == IF rest = {} THEN Len(text) + 1 ELSE CHOOSE m \in rest : \A n \in rest : m <= n
       IN  IF OccursAt(text, <<">">>, k) THEN k - i + 1
           ELSE IF OccursAt(text, <<"/", ">">>, k) THEN k - i + 2
           ELSE 0

\* text.replace(/<br\s*\/?>/g, "\n"), from position i on
RECURSIVE replaceBr(_, _)
replaceBr(text, i) ==
  IF i > Len(text) THEN <<>>
  ELSE LET n == brMatchLen(text, i)
       IN  IF n > 0 THEN <<"\n">> \o replaceBr(text, i + n)
           ELSE <<text[i]>> \o replaceBr(text, i + 1)

\* text.replace(/pattern/g, replacement) for a literal pattern, from position i on
RECURSIVE replaceAll(_, _, _, _)
replaceAll(text, pattern, replacement, i) ==
  IF i > Len(text) THEN <<>>
  ELSE IF OccursAt(text, pattern, i)
       THEN replacement \o replaceAll(text, pattern, replacement, i + Len(pattern))
       ELSE <<text[i]>> \o replaceAll(text, pattern, replacement, i + 1)

\* mutant of htmlError: the result is not trimmed
htmlError_NoTrim(captured) ==
  replaceAll(replaceAll(replaceBr(captured, 1), nbsp, <<" ">>, 1), apos, <<"'">>, 1)

\* errorMatch[1].replace(<br>, "\n").replace(&nbsp;, " ").replace(&#39;, "'").trim()
htmlError(captured) ==
  trim(replaceAll(replaceAll(replaceBr(captured, 1), nbsp, <<" ">>, 1), apos, <<"'">>, 1))

(* --------------------------------- JSON -------------------------------- *)
\* JSON values: null, a string, the empty array, an object of string members
JNull == [type |-> "null", chars |-> <<>>, members |-> <<>>]
JString(chars) == [type |-> "string", chars |-> chars, members |-> <<>>]
JArray == [type |-> "array", chars |-> <<>>, members |-> <<>>]
JObject(members) == [type |-> "object", chars |-> <<>>, members |-> members]
Member(k, v) == [key |-> k, value |-> v]

quote(chars) == <<"\"">> \o chars \o <<"\"">>

RECURSIVE stringifyMembers(_, _, _)
stringifyMembers(members, indent, i) ==
  IF i > Len(members) THEN <<>>
  ELSE (IF i > 1 THEN <<",">> ELSE <<>>)
       \o (IF indent > 0 THEN <<"\n">> \o [n \in 1..indent |-> " "] ELSE <<>>)
       \o quote(members[i].key) \o <<":">> \o (IF indent > 0 THEN <<" ">> ELSE <<>>)
       \o quote(members[i].value)
       \o stringifyMembers(members, indent, i + 1)

\* JSON.stringify(value, null, indent)
stringify(value, indent) ==
  CASE value.type = "null" -> nullText
    [] value.type = "string" -> quote(value.chars)
    [] value.type = "array" -> <<"[", "]">>
    [] OTHER -> IF value.members = <<>> THEN <<"{", "}">>
                ELSE <<"{">> \o stringifyMembers(value.members, indent, 1)
                     \o (IF indent > 0 THEN <<"\n">> ELSE <<>>) \o <<"}">>

errorKey == <<"e", "r", "r", "o", "r">>
JsonSamples ==
  { JNull, JArray, JString(errorKey), JObject(<<>>),
    JObject(<<Member(errorKey, <<"n", "o", "t", " ", "f", "o", "u", "n", "d">>)>>),
    JObject(<<Member(<<"m", "e", "s", "s", "a", "g", "e">>, <<"n", "o">>), Member(<<"c", "o", "d", "e">>, <<"E", "1">>)>>) }

\* JSON.parse(text): None when it throws. The texts that parse are the
\* serialisations, compact or indented, of the sample values.
parse(text) ==
  LET V == {v \in JsonSamples : text \in {stringify(v, 0), stringify(v, 2)}}
  IN  IF V = {} THEN None ELSE Some(CHOOSE v \in V : TRUE)

\* typeof value === "object" && value !== null && key in value
isObjectWith(value, key) ==
  /\ value.type \in {"object", "array"}
  /\ \E i \in 1..Len(value.members) : value.members[i].key = key

(* ------------------------------ responses ------------------------------ *)
Status(code, text) == [code |-> code, text |-> text]
Statuses == {Status(200, <<"2", "0", "0">>), Status(404, <<"4", "0", "4">>), Status(500, <<"5", "0", "0">>)}
\* response.ok
isOk(status) == status.code >= 200 /\ status.code <= 299

\* the content-type header, in pieces; None when the response has none
ContentTypes ==
  { None, Some(<<"application/json">>), Some(<<"application/json", "; charset=utf-8">>),
    Some(<<"text/html", "; charset=utf-8">>), Some(<<"text/plain">>) }
\* (response.headers.get("content-type") || "").includes(mediaType)
contentTypeIncludes(header, mediaType) ==
  IsSome(header) /\ \E i \in 1..Len(Get(header)) : Get(header)[i] = mediaType

Bodies ==
  {stringify(v, 0) : v \in JsonSamples}
    \cup {notJsonBody, longBody, htmlPreBody, htmlMarkupBody, htmlNoPreBody, htmlOpenPreBody}

HttpResponse(status, contentType, body) ==
  [status |-> status, contentType |-> contentType, body |-> body]
HttpResponses == {HttpResponse(s, c, b) : s \in Statuses, c \in ContentTypes, b \in Bodies}

(* ----------------------------- normalisation --------------------------- *)
\* mutant of errorMessage: a JSON error body is reported as it came
errorMessage_RawJson(response) ==
  IF contentTypeIncludes(response.contentType, "application/json") THEN response.body
  ELSE IF contentTypeIncludes(response.contentType, "text/html")
  THEN LET errorMatch == matchPre(response.body)
       IN  IF IsSome(errorMatch) THEN <<"Server error: ">> \o htmlError(Get(errorMatch))
           ELSE <<"Server returned HTML error page (">> \o response.status.text \o <<")">>
  ELSE response.body

\* mutant of errorMessage: the content type is not looked at, a body that
\* parses is always pretty-printed
errorMessage_AnyContentType(response) ==
  LET errorData == parse(response.body)
  IN  IF IsSome(errorData) THEN stringify(Get(errorData), 2) ELSE response.body

\* errorMessage of a response whose status is not ok
errorMessage(response) ==
  IF contentTypeIncludes(response.contentType, "application/json")
  THEN LET errorData == parse(response.body)
       IN  IF IsSome(errorData) /\ isObjectWith(Get(errorData), errorKey)
           THEN stringify(Get(errorData), 2)
           ELSE response.body
  ELSE IF contentTypeIncludes(response.contentType, "text/html")
  THEN LET errorMatch == matchPre(response.body)
       IN  IF IsSome(errorMatch) THEN <<"Server error: ">> \o htmlError(Get(errorMatch))
           ELSE <<"Server returned HTML error page (">> \o response.status.text \o <<")">>
  ELSE response.body

\* mutant of invalidJsonMessage: the whole body is shown
invalidJsonMessage_Whole(text) == <<"Invalid JSON response: ">> \o text

\* `Invalid JSON response: ${responseText.substring(0, 200)}`
invalidJsonMessage(text) ==
  <<"Invalid JSON response: ">> \o substring0(text, invalidJsonShown)

EarlierTools ==
  {"get_image_metadata", "list_categories", "get_resized_image",
   "upload_and_resize_image", "upload_image"}

earlierFailurePrefix(t) ==
  CASE t = "get_image_metadata" -> "Failed to get image metadata: "
    [] t = "list_categories" -> "Failed to list categories: "
    [] t = "get_resized_image" -> "Failed to get resized image URL: "
    [] OTHER -> "Failed to upload image: "

\* What the inline code of a handler makes of a response: ok with the parsed
\* value, or not ok with the message it derived (errorMessage, or the invalid
\* JSON message) and the message of the Error it throws.
normalize(t, response) ==
  IF ~isOk(response.status)
  THEN [ok |-> FALSE, value |-> JNull, message |-> errorMessage(response),
        thrown |-> <<earlierFailurePrefix(t)>> \o response.status.text \o <<" ">>
                     \o errorMessage(response)]
  ELSE LET data == parse(response.body)
       IN  IF data = None
           THEN [ok |-> FALSE, value |-> JNull, message |-> invalidJsonMessage(response.body),
                 thrown |-> invalidJsonMessage(response.body)]
           ELSE [ok |-> TRUE, value |-> Get(data), message |-> <<>>, thrown |-> <<>>]

\* the handler's result: the catch block's error text, or the text formatted
\* from the parsed value (of it only the closing raw JSON is modelled)
earlierHandlerResult(t, response) ==
  LET n == normalize(t, response)
  IN  IF n.ok THEN [isError |-> FALSE, text |-> stringify(n.value, 2)]
      ELSE [isError |-> TRUE, text |-> <<"Error: ">> \o n.thrown]
NoEarlierResult == [isError |-> FALSE, text |-> <<>>]
NoHttpResponse == HttpResponse(Status(0, <<>>), None, <<>>)

(* ------------------------------- the state ----------------------------- *)
VARIABLES
  proc,            \* "starting", "running", or "exited"
  exitCode,        \* None, or Some(the status process.exit was called with)
  baseUrl,         \* the resolved base URL
  apiKey,          \* the resolved API key
  registered,      \* the tools registered with the server
  connected,       \* the server is connected to the stdio transport
  startupLog,      \* the lines main() has logged
  now,             \* Date.now()
  ticks,           \* how often the clock has advanced
  invocations,     \* how many tool calls the transport has dispatched
  sizeCache,       \* None, or Some(mapping from size name to CategorySize)
  lastUpdatedAt,   \* None, or Some(time of the last successful refresh)
  lastAccessedAt,  \* None, or Some(time of the last getSizeCache return)
  pc,              \* per call: "idle", "readFile", "primary", "refresh", "list", "done"
                   \* ("done": the handler has returned its result to the transport)
  tool,            \* per call: the tool invoked
  req,             \* per call: the HTTP request in flight
  metadata,        \* per call: the metadata the primary response carried
  result,          \* per call: what the handler returned
  settled,         \* history, per call: the response its latest request settled with
  gsc,             \* history, per call: Some([at, refresh]) once it called getSizeCache
  everRefreshed,   \* history: some category-list response was processed successfully
  prevGetEnd,      \* history: when the latest completed getSizeCache call returned
  prevGetPopulated, \* history: that call returned a mapping, not undefined
  issued,          \* history, per call: the requests the invocation has issued
  reports,         \* history: how many results the transport has sent to callers
  fileRead,        \* history, per call: "none", or how its readFile settled: "ok", "failed"
  observing,       \* whether the history of overlapping category-list requests is kept
  issuedAfter,     \* history, per call: the calls whose category-list request was in
                   \* flight when this call issued its own
  processedMeanwhile, \* history, per call: None, or Some(the latest category-list response
                   \* processed while its own category-list request was in flight)
  prevGetFailed,   \* history: the latest completed getSizeCache call refreshed, in vain
  earlierPc,       \* normalising variant: "idle", "awaiting", "done"
  earlierTool,     \* normalising variant: the tool invoked
  earlierResponse, \* normalising variant: the response the request settled with
  earlierResult    \* normalising variant: what the handler returned

procVars == <<proc, exitCode, baseUrl, apiKey, registered, connected, startupLog>>
cacheVars == <<sizeCache, lastUpdatedAt, lastAccessedAt>>
callVars == <<pc, tool, req, metadata, result>>
histVars == <<settled, gsc, everRefreshed, prevGetEnd, prevGetPopulated>>
issueVars == <<issued, reports>>
fileVars == <<fileRead>>
overlapVars == <<observing, issuedAfter, processedMeanwhile>>
frameVars == <<prevGetFailed>>
mainVars == <<procVars, now, ticks, invocations, cacheVars, callVars, histVars, issueVars,
              fileVars, overlapVars, frameVars>>
earlierVars == <<earlierPc, earlierTool, earlierResponse, earlierResult>>
vars == <<mainVars, earlierVars>>

\* a 2xx category list that getCategories processes to the end: every size
\* entry of every named category is an object
Succeeds(r) ==
  /\ r.kind = "ok"
  /\ \A i \in 1..Len(r.categories) :
       r.categories[i].name # "" =>
         \A j \in 1..Len(r.categories[i].sizes) : ~r.categories[i].sizes[j].isNull

\* the calls other than c whose category-list request is in flight
ListInFlight(c) == {d \in Calls \ {c} : pc[d] \in {"refresh", "list"}}

\* call c's category-list request has settled with r: the calls whose own is
\* still in flight note the categories it carried (None if getCategories did
\* not get through it), whether it had been issued before theirs and whether
\* getSizeCache had issued it (if not, list_categories had)
Processed(c, r) ==
  /\ processedMeanwhile' =
       [d \in Calls |->
          IF observing /\ d \in ListInFlight(c)
          THEN Some([categories |-> IF Succeeds(r) THEN Some(r.categories) ELSE None,
                     issuedFirst |-> c \in issuedAfter[d],
                     refresh |-> pc[c] = "refresh"])
          ELSE processedMeanwhile[d]]
  /\ issuedAfter' = [d \in Calls |-> IF d = c THEN {} ELSE issuedAfter[d] \ {c}]
  /\ UNCHANGED observing

\* the state once the module is loaded and main() is about to run
InitState ==
  /\ proc = "starting"
  /\ exitCode = None
  /\ baseUrl = <<>>
  /\ apiKey = <<>>
  /\ registered = {}
  /\ connected = FALSE
  /\ startupLog = <<>>
  /\ now = 1
  /\ ticks = 0
  /\ invocations = 0
  /\ sizeCache = None
  /\ lastUpdatedAt = None
  /\ lastAccessedAt = None
  /\ pc = [c \in Calls |-> "idle"]
  /\ tool = [c \in Calls |-> "none"]
  /\ req = [c \in Calls |-> NoRequest]
  /\ metadata = [c \in Calls |-> NoMetadata]
  /\ result = [c \in Calls |-> NoResult]
  /\ settled = [c \in Calls |-> NoResponse]
  /\ gsc = [c \in Calls |-> None]
  /\ everRefreshed = FALSE
  /\ prevGetEnd = None
  /\ prevGetPopulated = FALSE
  /\ issued = [c \in Calls |-> <<>>]
  /\ reports = 0
  /\ fileRead = [c \in Calls |-> "none"]
  /\ processedMeanwhile = [c \in Calls |-> None]
  /\ prevGetFailed = FALSE
  /\ issuedAfter = [c \in Calls |-> {}]
  /\ earlierPc = "idle"
  /\ earlierTool = "none"
  /\ earlierResponse = NoHttpResponse
  /\ earlierResult = NoEarlierResult

Init == InitState /\ observing = FALSE

\* main(): the configuration is resolved; with no base URL the usage is logged
\* and the process exits with status 1; otherwise the six tools are registered
\* and the server is connected to the transport
Start(providedUrl, argUrl, providedKey, argKey) ==
  /\ proc = "starting"
  /\ LET url == configString(providedUrl, argOrEmpty(argUrl))
         key == configString(providedKey, argOrEmpty(argKey))
         missing == baseUrlMissing(url)
     IN  /\ baseUrl' = url
         /\ apiKey' = key
         /\ proc' = IF missing THEN "exited" ELSE "running"
         /\ exitCode' = IF missing THEN Some(1) ELSE None
         /\ registered' = IF missing THEN {} ELSE Tools
         /\ connected' = ~missing
         /\ startupLog' = IF missing THEN <<LogLine("error", "usage", <<>>)>>
                          ELSE << LogLine("info", "running", <<>>),
                                  LogLine("info", "baseUrl", url),
                                  LogLine("info", "apiKey", first8(key)) >>
  /\ UNCHANGED <<earlierVars, now, ticks, invocations, cacheVars, callVars, histVars, issueVars,
                 fileVars, overlapVars, frameVars>>

\* A handler that has returned hands its result to the transport in the same
\* turn of the event loop, before any other I/O callback runs.
Delivered == \A c \in Calls : pc[c] # "done"

\* time passes while the process waits for I/O
Tick(d) ==
  /\ proc = "running"
  /\ Delivered
  /\ ticks < MaxTicks
  /\ now' = now + d
  /\ ticks' = ticks + 1
  /\ UNCHANGED <<earlierVars, procVars, invocations, cacheVars, callVars, histVars, issueVars,
                 fileVars, overlapVars, frameVars>>

\* the transport dispatches a tool call (to the first idle slot: which slot a
\* call runs in is immaterial); the handler runs to its first await
Invoke(c, t) ==
  /\ proc = "running" /\ connected /\ t \in registered
  /\ Delivered
  /\ pc[c] = "idle"
  /\ \A d \in Calls : d < c => pc[d] # "idle"
  /\ invocations < MaxInvocations
  /\ invocations' = invocations + 1
  /\ tool' = [tool EXCEPT ![c] = t]
  /\ pc' = [pc EXCEPT ![c] = IF t \in UploadTools THEN "readFile"
                             ELSE IF t = "list_categories" THEN "list" ELSE "primary"]
  /\ req' = [req EXCEPT ![c] = IF t \in UploadTools THEN NoRequest
                               ELSE makeApiCall(baseUrl, apiKey, primaryRequest(t))]
  /\ issued' = [issued EXCEPT ![c] = IF t \in UploadTools THEN <<>> ELSE <<req'[c]>>]
  /\ issuedAfter' = [issuedAfter EXCEPT ![c] = IF observing /\ t = "list_categories"
                                               THEN ListInFlight(c) ELSE {}]
  /\ UNCHANGED <<earlierVars, procVars, now, ticks, cacheVars, metadata, result, histVars,
                 reports, fileVars, observing, processedMeanwhile, frameVars>>

\* uploadImage: readFile settles; on success the upload request is issued, on
\* failure the rejection reaches the handler's catch block
ReadFile(c, ok) ==
  /\ Delivered
  /\ pc[c] = "readFile"
  /\ LET next == afterReadFile(tool[c], ok)
     IN  /\ pc' = [pc EXCEPT ![c] = next.pc]
         /\ req' = [req EXCEPT ![c] = IF IsSome(next.request)
                                      THEN makeApiCall(baseUrl, apiKey, Get(next.request))
                                      ELSE NoRequest]
         /\ result' = [result EXCEPT ![c] = next.result]
         /\ issued' = [issued EXCEPT ![c] = IF IsSome(next.request) THEN <<req'[c]>> ELSE <<>>]
  /\ fileRead' = [fileRead EXCEPT ![c] = IF ok THEN "ok" ELSE "failed"]
  /\ UNCHANGED <<earlierVars, procVars, now, ticks, invocations, cacheVars, tool, metadata,
                 histVars, reports, overlapVars, frameVars>>

\* the primary request settles with r; the handler runs on: to its result, or
\* into getSizeCache and, when the cache is stale or missing, to the refresh
HandlePrimary(c, r) ==
  /\ Delivered
  /\ pc[c] = "primary"
  /\ r \in PrimaryResponses(tool[c])
  /\ LET t == tool[c]
         failed == primaryThrows(t, r)
         callsCache == ~failed /\ callsGetSizeCache(t, r.metadata)
         refresh == callsCache /\ isStaleOrMissing(sizeCache, lastAccessedAt, now)
         returns == callsCache /\ ~refresh
         next == afterPrimary(t, failed, refresh)
     IN  /\ pc' = [pc EXCEPT ![c] = next.pc]
         /\ req' = [req EXCEPT ![c] = IF IsSome(next.request)
                                      THEN makeApiCall(baseUrl, apiKey, Get(next.request))
                                      ELSE NoRequest]
         /\ issued' = [issued EXCEPT ![c] = IF IsSome(next.request) THEN Append(@, req'[c])
                                            ELSE @]
         /\ metadata' = [metadata EXCEPT ![c] = IF failed THEN NoMetadata ELSE r.metadata]
         /\ result' = [result EXCEPT ![c] =
              IF refresh THEN NoResult
              ELSE IF failed THEN primaryError(t, r)
              ELSE IF t = "get_resized_image" THEN getResizedImageResult(r)
              ELSE TextResult(responseText(t, r.metadata, sizeCache))]
         /\ lastAccessedAt' = IF returns THEN accessedAt(lastAccessedAt, now) ELSE lastAccessedAt
         /\ gsc' = [gsc EXCEPT ![c] =
              IF callsCache THEN Some([at |-> now, refresh |-> refresh]) ELSE None]
         /\ prevGetEnd' = IF returns THEN Some(now) ELSE prevGetEnd
         /\ settled' = [settled EXCEPT ![c] = r]
         /\ prevGetPopulated' = IF returns THEN IsSome(sizeCache) ELSE prevGetPopulated
         /\ prevGetFailed' = IF returns THEN FALSE ELSE prevGetFailed
         /\ issuedAfter' = [issuedAfter EXCEPT ![c] = IF observing /\ refresh
                                                      THEN ListInFlight(c) ELSE {}]
  /\ UNCHANGED <<earlierVars, procVars, now, ticks, invocations, sizeCache, lastUpdatedAt, tool,
                 everRefreshed, reports, fileVars, observing, processedMeanwhile>>

\* the refresh request of getSizeCache settles with r: getCategories finishes,
\* getSizeCache records the access and returns, the handler formats its result
HandleRefresh(c, r) ==
  /\ Delivered
  /\ pc[c] = "refresh"
  /\ r \in CategoryListResponses
  /\ LET g == getCategories(r, sizeCache, lastUpdatedAt, now)
     IN  /\ sizeCache' = g.sizeCache
         /\ lastUpdatedAt' = g.lastUpdatedAt
         /\ lastAccessedAt' = IF g.threw THEN lastAccessedAt ELSE accessedAt(lastAccessedAt, now)
         /\ result' = [result EXCEPT ![c] = afterRefreshResult(tool[c], metadata[c], g)]
         /\ prevGetPopulated' = IF g.threw THEN prevGetPopulated ELSE IsSome(g.sizeCache)
  /\ pc' = [pc EXCEPT ![c] = "done"]
  /\ req' = [req EXCEPT ![c] = NoRequest]
  /\ everRefreshed' = (everRefreshed \/ Succeeds(r))
  /\ prevGetEnd' = Some(now)
  /\ settled' = [settled EXCEPT ![c] = r]
  /\ Processed(c, r)
  /\ prevGetFailed' = ~Succeeds(r)
  /\ UNCHANGED <<earlierVars, procVars, now, ticks, invocations, tool, metadata, gsc, issueVars,
                 fileRead>>

\* the request of list_categories settles with r: getCategories finishes and
\* the handler formats what it returned
HandleList(c, r) ==
  /\ Delivered
  /\ pc[c] = "list"
  /\ r \in CategoryListResponses
  /\ LET g == getCategories(r, sizeCache, lastUpdatedAt, now)
     IN  /\ sizeCache' = g.sizeCache
         /\ lastUpdatedAt' = g.lastUpdatedAt
         /\ result' = [result EXCEPT ![c] = listCategoriesResult(g)]
  /\ pc' = [pc EXCEPT ![c] = "done"]
  /\ req' = [req EXCEPT ![c] = NoRequest]
  /\ everRefreshed' = (everRefreshed \/ Succeeds(r))
  /\ settled' = [settled EXCEPT ![c] = r]
  /\ UNCHANGED <<earlierVars, procVars, now, ticks, invocations, lastAccessedAt, tool, metadata,
                 gsc, prevGetEnd, prevGetPopulated, issueVars, fileVars, prevGetFailed>>
  /\ Processed(c, r)

\* the transport sends the result to the caller; the call is over
Return(c) ==
  /\ pc[c] = "done"
  /\ pc' = [pc EXCEPT ![c] = "idle"]
  /\ tool' = [tool EXCEPT ![c] = "none"]
  /\ result' = [result EXCEPT ![c] = NoResult]
  /\ gsc' = [gsc EXCEPT ![c] = None]
  /\ settled' = [settled EXCEPT ![c] = NoResponse]
  /\ issued' = [issued EXCEPT ![c] = <<>>]
  /\ metadata' = [metadata EXCEPT ![c] = NoMetadata]
  /\ reports' = reports + 1
  /\ fileRead' = [fileRead EXCEPT ![c] = "none"]
  /\ processedMeanwhile' = [processedMeanwhile EXCEPT ![c] = None]
  /\ UNCHANGED <<earlierVars, procVars, now, ticks, invocations, cacheVars, req,
                 everRefreshed, prevGetEnd, prevGetPopulated, observing, issuedAfter,
                 prevGetFailed>>

Next ==
  \/ \E pu \in ProvidedUrls, au \in ArgUrls, pk \in ProvidedKeys, ak \in ArgKeys :
       Start(pu, au, pk, ak)
  \/ \E d \in TickSteps : Tick(d)
  \/ \E c \in Calls, t \in Tools : Invoke(c, t)
  \/ \E c \in Calls, ok \in BOOLEAN : ReadFile(c, ok)
  \/ \E c \in Calls, r \in MetadataResponses \cup ResizedResponses : HandlePrimary(c, r)
  \/ \E c \in Calls, r \in CategoryListResponses : HandleRefresh(c, r)
  \/ \E c \in Calls, r \in CategoryListResponses : HandleList(c, r)
  \/ \E c \in Calls : Return(c)

Spec == Init /\ [][Next]_vars

(* ------------- the same server, overlapping requests observed ---------- *)
\* The same actions from the same state, with the history of overlapping
\* category-list requests kept. The category-list endpoint answers with every
\* kind of failure and with the lists one category shorter than in Spec, the
\* clock advances five minutes at a time, and the configured key is one of
\* exactly eight characters.
FewCategoryListResponses ==
  {r \in CategoryListResponses : Len(r.categories) <= MaxCategories - 1}

shortKey == <<"key-0123">>

OverlapInit == InitState /\ observing = TRUE

OverlapNext ==
  \/ \E pu \in ProvidedUrls, au \in ArgUrls, pk \in {Some(shortKey)}, ak \in ArgKeys :
       Start(pu, au, pk, ak)
  \/ \E d \in {fiveMinutesInMs} : Tick(d)
  \/ \E c \in Calls, t \in Tools : Invoke(c, t)
  \/ \E c \in Calls, ok \in BOOLEAN : ReadFile(c, ok)
  \/ \E c \in Calls, r \in MetadataResponses \cup ResizedResponses : HandlePrimary(c, r)
  \/ \E c \in Calls, r \in FewCategoryListResponses : HandleRefresh(c, r)
  \/ \E c \in Calls, r \in FewCategoryListResponses : HandleList(c, r)
  \/ \E c \in Calls : Return(c)

OverlapSpec == OverlapInit /\ [][OverlapNext]_vars

\* what settles call c's pending operation: its file read or HTTP request
Completes(c) ==
  \/ \E ok \in BOOLEAN : ReadFile(c, ok)
  \/ \E r \in MetadataResponses \cup ResizedResponses : HandlePrimary(c, r)
  \/ \E r \in FewCategoryListResponses : HandleRefresh(c, r)
  \/ \E r \in FewCategoryListResponses : HandleList(c, r)

\* The transport sends every result a handler has returned. Nothing says that
\* a file read or an HTTP request ever settles: no timeout is set on either.
LiveSpec == OverlapSpec /\ \A c \in Calls : WF_vars(Return(c))

(* ---------------- the normalising variant, one call at a time ----------- *)
\* a tool of the normalising variant is invoked and its request issued
EarlierInvoke(t) ==
  /\ earlierPc = "idle"
  /\ earlierPc' = "awaiting"
  /\ earlierTool' = t
  /\ UNCHANGED <<mainVars, earlierResponse, earlierResult>>

\* the request settles with a response; the handler runs to its result
EarlierRespond(response) ==
  /\ earlierPc = "awaiting"
  /\ earlierPc' = "done"
  /\ earlierResponse' = response
  /\ earlierResult' = earlierHandlerResult(earlierTool, response)
  /\ UNCHANGED <<mainVars, earlierTool>>

\* fetch (or, in an upload, readFile) rejects; the catch block reports it
EarlierReject ==
  /\ earlierPc = "awaiting"
  /\ earlierPc' = "done"
  /\ earlierResult' = [isError |-> TRUE, text |-> <<"Error: ", "fetch failed">>]
  /\ UNCHANGED <<mainVars, earlierTool, earlierResponse>>

\* the result is sent to the caller
EarlierReturn ==
  /\ earlierPc = "done"
  /\ earlierPc' = "idle"
  /\ earlierTool' = "none"
  /\ earlierResponse' = NoHttpResponse
  /\ earlierResult' = NoEarlierResult
  /\ UNCHANGED mainVars

EarlierNext ==
  \/ \E t \in EarlierTools : EarlierInvoke(t)
  \/ \E response \in HttpResponses : EarlierRespond(response)
  \/ EarlierReject
  \/ EarlierReturn

EarlierSpec == Init /\ [][EarlierNext]_vars

(* ====================== properties of the size cache =================== *)
\* call c enters getSizeCache in this step; it issues the refresh request
StartsGetSizeCache(c) == gsc[c] = None /\ gsc'[c] # None
IssuesRefresh(c) == StartsGetSizeCache(c) /\ Get(gsc'[c]).refresh
\* getSizeCache returns to call c in this step
ReturnsFromGetSizeCache(c) ==
  pc[c] \in {"primary", "refresh"} /\ pc'[c] = "done" /\ gsc'[c] # None
\* call c's category-list request settles in this step (with settled'[c])
SettlesCategoryList(c) == pc[c] \in {"refresh", "list"} /\ pc'[c] = "done"
SettlesRefresh(c) == pc[c] = "refresh" /\ pc'[c] = "done"

\* the size entries of a category list, by position; of the named categories only
Positions(cats, namedOnly) ==
  UNION { {<<i, j>> : j \in 1..Len(cats[i].sizes)} :
            i \in {k \in 1..Len(cats) : ~namedOnly \/ cats[k].name # ""} }
NotAfter(p, q) == p[1] < q[1] \/ (p[1] = q[1] /\ p[2] <= q[2])
\* one entry per distinct size name at the positions P: the last one in order
LastWins(cats, P) ==
  LET at(p) == cats[p[1]].sizes[p[2]]
      names == {at(p).name : p \in P}
  IN  [n \in names |->
         LET Pn == {p \in P : at(p).name = n}
         IN  at(CHOOSE p \in Pn : \A q \in Pn : NotAfter(q, p))]

\* C1 (as stated): a getSizeCache call attempts a refresh if and only if no
\* refresh has succeeded so far or more than 5 minutes have elapsed since the
\* previous getSizeCache call.
C1_AsStated ==
  [][\A c \in Calls : StartsGetSizeCache(c) =>
       (Get(gsc'[c]).refresh <=>
          \/ ~everRefreshed
          \/ IsSome(prevGetEnd) /\ now - Get(prevGetEnd) > fiveMinutesInMs)]_vars

\* C1 (amended): a getSizeCache call attempts a refresh if and only if no
\* refresh has succeeded so far, or no getSizeCache call has returned so far,
\* or more than 5 minutes have elapsed since the previous getSizeCache call
\* returned; so while no refresh has succeeded every call attempts one.
C1_RefreshIff ==
  [][\A c \in Calls : StartsGetSizeCache(c) =>
       (Get(gsc'[c]).refresh <=>
          \/ ~everRefreshed
          \/ prevGetEnd = None
          \/ now - Get(prevGetEnd) > fiveMinutesInMs)]_vars

\* a call refreshes, no refresh having succeeded, although the previous
\* getSizeCache call returned less than 5 minutes before
C1_Witness ==
  \E c \in Calls :
    /\ pc[c] = "refresh" /\ Get(gsc[c]).refresh
    /\ ~everRefreshed
    /\ IsSome(prevGetEnd) /\ Get(gsc[c]).at - Get(prevGetEnd) < fiveMinutesInMs

\* C2 (as stated): two getSizeCache calls made less than 5 minutes apart,
\* interleaved ones included, issue at most one category-list request.
C2_AsStated ==
  \A c, d \in Calls :
    (c # d /\ IsSome(gsc[c]) /\ IsSome(gsc[d]) /\
     Get(gsc[c]).at - Get(gsc[d]).at < fiveMinutesInMs /\
     Get(gsc[d]).at - Get(gsc[c]).at < fiveMinutesInMs)
      => ~(Get(gsc[c]).refresh /\ Get(gsc[d]).refresh)

\* C2 (amended): of two getSizeCache calls of which the second starts after
\* the first has returned a mapping, and less than 5 minutes after that
\* return, the second issues no category-list request (so the pair at most one).
C2_SecondCallNoRequest ==
  [][\A c \in Calls :
       (StartsGetSizeCache(c) /\ IsSome(prevGetEnd) /\ prevGetPopulated /\
        now - Get(prevGetEnd) < fiveMinutesInMs)
         => ~Get(gsc'[c]).refresh]_vars

\* a getSizeCache call made after a refresh, time having passed, has returned
\* without a request
C2_Witness ==
  \E c \in Calls :
    /\ pc[c] = "done" /\ IsSome(gsc[c]) /\ ~Get(gsc[c]).refresh
    /\ IsSome(lastUpdatedAt) /\ Get(gsc[c]).at > Get(lastUpdatedAt)
    /\ Get(gsc[c]).at - Get(lastUpdatedAt) < fiveMinutesInMs

\* C3: the cache starts absent, and whenever it changes it becomes the complete
\* mapping of the one successful category-list response processed in that
\* step: never a mix of two responses, never a part of one.
C3_CacheFromOneResponse ==
  /\ sizeCache = None
  /\ [][sizeCache' # sizeCache =>
          \E c \in Calls :
            /\ SettlesCategoryList(c)
            /\ Succeeds(settled'[c])
            /\ sizeCache' = Some(LastWins(settled'[c].categories,
                                          Positions(settled'[c].categories, TRUE)))]_vars

\* the cache has been replaced: getSizeCache returned a mapping, and a later
\* response (banner alone) has put its own mapping in its place
C3_Witness ==
  /\ prevGetPopulated /\ IsSome(lastUpdatedAt)
  /\ Get(lastUpdatedAt) > Get(prevGetEnd)
  /\ DOMAIN Get(sizeCache) = {"small"}
  /\ Get(sizeCache)["small"].width = 2

\* C4 (as stated): after a successful refresh the cache has exactly one entry
\* per distinct size name of any category of the response, the last one.
C4_AsStated ==
  [][\A c \in Calls : (SettlesCategoryList(c) /\ Succeeds(settled'[c])) =>
       sizeCache' = Some(LastWins(settled'[c].categories,
                                  Positions(settled'[c].categories, FALSE)))]_vars

\* C4 (amended): after a successful refresh the cache has exactly one entry per
\* distinct size name of the categories of the response that have a name, the
\* entry of the last such category (and the last size within it) in order.
C4_LastNamedCategoryWins ==
  [][\A c \in Calls : (SettlesCategoryList(c) /\ Succeeds(settled'[c])) =>
       sizeCache' = Some(LastWins(settled'[c].categories,
                                  Positions(settled'[c].categories, TRUE)))]_vars

\* the cache after the response <<avatar, banner>>: "small" from banner (its
\* second entry), "large" from avatar
C4_Witness ==
  /\ IsSome(sizeCache)
  /\ DOMAIN Get(sizeCache) = {"small", "large"}
  /\ Get(sizeCache)["small"].width = 2
  /\ Get(sizeCache)["large"].width = 1

\* C5: a refresh that fails (transport error, non-2xx status, unparsable or
\* malformed body) leaves sizeCache and lastUpdatedAt as they were.
C5_FailedRefreshKeepsCache ==
  [][\A c \in Calls : (SettlesCategoryList(c) /\ ~Succeeds(settled'[c])) =>
       (sizeCache' = sizeCache /\ lastUpdatedAt' = lastUpdatedAt)]_vars

\* a refresh of getSizeCache has just failed on a populated cache: the mapping
\* and the time of the earlier refresh are still there
C5_Witness ==
  \E c \in Calls :
    /\ pc[c] = "done" /\ IsSome(gsc[c]) /\ Get(gsc[c]).refresh
    /\ IsSome(sizeCache) /\ Get(sizeCache) # EmptyMap
    /\ Get(lastUpdatedAt) < now

\* C6: a failed refresh is not surfaced: getSizeCache returns the mapping the
\* cache held (undefined if none) and the metadata, transcode or upload call
\* returns the non-error text formatted with it.
C6_FailedRefreshNotSurfaced ==
  [][\A c \in Calls : (SettlesRefresh(c) /\ ~Succeeds(settled'[c])) =>
       result'[c] = TextResult(
         buildImageMetadataResponseText(metadata[c], label(tool[c]), sizeCache))]_vars

\* an upload whose refresh failed with no earlier mapping returned its text
C6_Witness ==
  \E c \in Calls :
    /\ pc[c] = "done" /\ tool[c] \in UploadTools
    /\ IsSome(gsc[c]) /\ Get(gsc[c]).refresh
    /\ sizeCache = None
    /\ result[c].returned /\ ~result[c].isError

\* C7: every getSizeCache call sets lastAccessedAt to the current time when it
\* returns, refreshed or not, successfully or not; and with the cache populated
\* a call made at most 5 minutes after the previous call returned issues no
\* refresh, whatever lastUpdatedAt is.
C7_AccessDrivesStaleness ==
  [][\A c \in Calls :
       /\ ReturnsFromGetSizeCache(c) => lastAccessedAt' = Some(now)
       /\ (StartsGetSizeCache(c) /\ IsSome(sizeCache) /\ IsSome(prevGetEnd) /\
           now - Get(prevGetEnd) <= fiveMinutesInMs)
            => ~Get(gsc'[c]).refresh]_vars

\* the cache was last refreshed more than 5 minutes ago and a getSizeCache call
\* has just returned it without a refresh
C7_Witness ==
  \E c \in Calls :
    /\ pc[c] = "done" /\ IsSome(gsc[c]) /\ ~Get(gsc[c]).refresh
    /\ IsSome(lastUpdatedAt) /\ now - Get(lastUpdatedAt) > fiveMinutesInMs
    /\ lastAccessedAt = Some(now)

(* ======================== properties of the start ====================== *)
\* C17: if the base URL is empty or only whitespace once the configuration
\* provider and the command-line argument are resolved, the process logs the
\* usage message and exits with a non-zero status before any tool is
\* registered, any HTTP request is made or the transport is connected.
C17_NoBaseUrlExits ==
  (proc # "starting" /\ \A i \in 1..Len(baseUrl) : baseUrl[i] \in Whitespace) =>
    /\ proc = "exited"
    /\ IsSome(exitCode) /\ Get(exitCode) # 0
    /\ \E i \in 1..Len(startupLog) : startupLog[i].k = "usage"
    /\ registered = {}
    /\ ~connected
    /\ invocations = 0
    /\ \A c \in Calls : pc[c] = "idle" /\ req[c] = NoRequest

\* the command line gave a base URL of two blanks and the provider none: exited
C17_Witness ==
  /\ proc = "exited"
  /\ baseUrl = <<" ", " ">>
  /\ exitCode = Some(1)

(* ====================== properties of the requests ===================== *)
\* the requests for a path among those a call has issued
IssuedFor(c, request) ==
  {i \in 1..Len(issued[c]) : issued[c][i] = makeApiCall(baseUrl, apiKey, request)}

\* C18: no request is retried: an invocation issues its primary request at most
\* once and at most one category-list refresh request, whatever the outcome,
\* nothing else, and gets exactly one result; an upload issues at most one POST.
C18_NoRetry ==
  /\ \A c \in Calls :
       /\ pc[c] = "idle" => issued[c] = <<>>
       /\ pc[c] # "idle" =>
            /\ Cardinality(IssuedFor(c, primaryRequest(tool[c]))) <= 1
            /\ Cardinality(IssuedFor(c, categoryListRequest)) <= 1
            /\ \A i \in 1..Len(issued[c]) :
                  i \in IssuedFor(c, primaryRequest(tool[c])) \cup IssuedFor(c, categoryListRequest)
            /\ Cardinality({i \in 1..Len(issued[c]) : issued[c][i].method = "POST"}) <= 1
  /\ reports + Cardinality({c \in Calls : pc[c] # "idle"}) = invocations

\* an upload whose POST succeeded and whose refresh then failed has returned:
\* two requests issued, one of each
C18_Witness ==
  \E c \in Calls :
    /\ pc[c] = "done" /\ tool[c] \in UploadTools
    /\ Len(issued[c]) = 2
    /\ ~Succeeds(settled[c])
    /\ reports = 1

\* C19: every outbound HTTP request, cache refreshes and uploads included, goes
\* to the configured base URL followed by the relative path and carries the
\* header X-API-Key with the configured API key.
C19_BaseUrlAndApiKey ==
  \A c \in Calls :
    /\ pc[c] \in {"primary", "refresh", "list"} =>
         (req[c] # NoRequest /\ req[c] = issued[c][Len(issued[c])])
    /\ \A i \in 1..Len(issued[c]) :
         LET sent == issued[c][i]
         IN  /\ Len(sent.url) > Len(baseUrl)
             /\ SubSeq(sent.url, 1, Len(baseUrl)) = baseUrl
             /\ SubSeq(sent.url, Len(baseUrl) + 1, Len(sent.url))
                  \in {primaryRequest(tool[c]).path, categoryListRequest.path}
             /\ "X-API-Key" \in DOMAIN sent.headers
             /\ sent.headers["X-API-Key"] = apiKey

\* an upload has its POST in flight while the refresh request of another call
\* is in flight, both to the configured URL with the configured key
C19_Witness ==
  \E c, d \in Calls :
    /\ tool[c] \in UploadTools /\ pc[c] = "primary"
    /\ pc[d] = "refresh"
    /\ req[c].headers["X-API-Key"] = serviceKey /\ req[d].headers["X-API-Key"] = serviceKey
    /\ SubSeq(req[c].url, 1, 1) = serviceUrl /\ SubSeq(req[d].url, 1, 1) = serviceUrl

\* the last n pieces of a string
Suffix(str, n) == SubSeq(str, Len(str) - n + 1, Len(str))

\* C11: the request of an upload is a POST to /api/image/{category} whose path
\* ends with forceImmediateResize=true exactly when the tool is
\* upload_and_resize_image and with forceImmediateResize=false exactly when it
\* is upload_image, and whose multipart body carries the file in field "image".
C11_UploadRequest ==
  \A c \in Calls : (tool[c] \in UploadTools /\ pc[c] = "primary") =>
    /\ req[c].method = "POST"
    /\ SubSeq(req[c].url, 1, Len(req[c].url) - 2) = baseUrl \o <<"/api/image/", categoryArg>>
    /\ (Suffix(req[c].url, 2) = <<"?forceImmediateResize=", "true">>
          <=> tool[c] = "upload_and_resize_image")
    /\ (Suffix(req[c].url, 2) = <<"?forceImmediateResize=", "false">>
          <=> tool[c] = "upload_image")
    /\ IsSome(req[c].body)
    /\ Get(req[c].body).field = "image"
    /\ Get(req[c].body).blob = fileBuffer

\* an upload of each kind has its request in flight
C11_Witness ==
  \E c, d \in Calls :
    /\ tool[c] = "upload_and_resize_image" /\ pc[c] = "primary"
    /\ tool[d] = "upload_image" /\ pc[d] = "primary"
    /\ req[c].url # req[d].url

(* ================= properties of the response normalisation ============ *)
\* the response a finished call of the normalising variant was given
Normalised == earlierPc = "done" /\ earlierResponse # NoHttpResponse
FailureStatus == Normalised /\ ~isOk(earlierResponse.status)
\* the message the normalisation derived: what follows "Error: " and, for a
\* failure status, the handler's "Failed to ...: <status> "
DerivedMessage ==
  IF isOk(earlierResponse.status) THEN Tail(earlierResult.text)
  ELSE SubSeq(earlierResult.text, 4 + Len(earlierResponse.status.text), Len(earlierResult.text))
FirstChars(text, n) == [i \in 1..(IF Len(text) < n THEN Len(text) ELSE n) |-> text[i]]

MediaTypeIs(mediaType) ==
  IsSome(earlierResponse.contentType) /\ Head(Get(earlierResponse.contentType)) = mediaType

\* {"error":"not found"} as it is sent, and pretty-printed with an indent of 2
notFoundBody ==
  << "{", "\"", "e", "r", "r", "o", "r", "\"", ":", "\"", "n", "o", "t", " ", "f", "o", "u",
     "n", "d", "\"", "}" >>
notFoundPretty ==
  << "{", "\n", " ", " ", "\"", "e", "r", "r", "o", "r", "\"", ":", " ", "\"", "n", "o", "t",
     " ", "f", "o", "u", "n", "d", "\"", "\n", "}" >>

PreBlocks(text) ==
  {b \in (1..Len(text)) \X (1..Len(text)) :
     OccursAt(text, preOpen, b[1]) /\ OccursAt(text, preClose, b[2]) /\ b[2] >= b[1] + 5}
FirstPreBlock(text) ==
  CHOOSE b \in PreBlocks(text) :
    \A o \in PreBlocks(text) : b[1] < o[1] \/ (b[1] = o[1] /\ b[2] <= o[2])
PreContent(text) == SubSeq(text, FirstPreBlock(text)[1] + 5, FirstPreBlock(text)[2] - 1)

\* a <br> tag: "<br", whitespace, an optional "/", ">"
IsBrTag(tag) ==
  /\ Len(tag) >= 4 /\ SubSeq(tag, 1, 3) = <<"<", "b", "r">> /\ tag[Len(tag)] = ">"
  /\ \A i \in 4..(Len(tag) - 1) :
        tag[i] \in Whitespace \/ (tag[i] = "/" /\ i = Len(tag) - 1)
\* one pass over a text: <br> tags to newlines, &nbsp; to a space, &#39; to '
RECURSIVE Decoded(_, _)
Decoded(text, i) ==
  IF i > Len(text) THEN <<>>
  ELSE LET tags == {n \in 4..(Len(text) - i + 1) : IsBrTag(SubSeq(text, i, i + n - 1))}
       IN  IF tags # {}
           THEN <<"\n">> \o Decoded(text, i + (CHOOSE n \in tags : \A m \in tags : n <= m))
           ELSE IF OccursAt(text, nbsp, i) THEN <<" ">> \o Decoded(text, i + 6)
           ELSE IF OccursAt(text, apos, i) THEN <<"'">> \o Decoded(text, i + 5)
           ELSE <<text[i]>> \o Decoded(text, i + 1)
\* a text without the whitespace at its two ends
Stripped(text) ==
  LET I == {i \in 1..Len(text) : text[i] \notin Whitespace}
  IN  IF I = {} THEN <<>>
      ELSE SubSeq(text, CHOOSE i \in I : \A j \in I : i <= j,
                        CHOOSE i \in I : \A j \in I : j <= i)

internalError ==
  <<"I", "n", "t", "e", "r", "n", "a", "l", " ", "E", "r", "r", "o", "r">>

C15_RawBodyVerbatim ==
  LET data == parse(earlierResponse.body)
      objectWithError ==
        /\ IsSome(data) /\ Get(data).type = "object"
        /\ \E i \in 1..Len(Get(data).members) : Get(data).members[i].key = errorKey
  IN  (/\ FailureStatus
       /\ \/ ~MediaTypeIs("application/json") /\ ~MediaTypeIs("text/html")
          \/ MediaTypeIs("application/json") /\ data = None
          \/ MediaTypeIs("application/json") /\ IsSome(data) /\ ~objectWithError)
        => (earlierResult.isError /\ DerivedMessage = earlierResponse.body)

\* an application/json failure whose body parses to an object of two members,
\* neither of them `error`: the message is the body as sent, not pretty-printed
C15_Witness ==
  /\ FailureStatus /\ MediaTypeIs("application/json")
  /\ IsSome(parse(earlierResponse.body))
  /\ Len(Get(parse(earlierResponse.body)).members) = 2
  /\ DerivedMessage = earlierResponse.body
  /\ DerivedMessage # stringify(Get(parse(earlierResponse.body)), 2)

(* ====================== properties of the tool results ================= *)
\* call c of get_resized_image has its result, from a 2xx JSON response
ResizedDone(c) ==
  pc[c] = "done" /\ tool[c] = "get_resized_image" /\ settled[c].kind = "ok"
\* the request of get_resized_image: GET /api/image/s/{id}/{size}
ResizedRequest ==
  \A c \in Calls : (tool[c] = "get_resized_image" /\ pc[c] = "primary") =>
    /\ req[c].method = "GET"
    /\ req[c].url = baseUrl \o <<"/api/image/s/", imageServiceId, "/", sizeArg>>
\* the markdown block with the URL in it; the raw JSON of the response
IsUrlBlock(res, url) ==
  /\ res.returned /\ ~res.isError
  /\ res.text[1] = Plain("heading", "Resized Image URL")
  /\ \E i \in 1..Len(res.text) : res.text[i] = Plain("downloadUrl", url)
IsRawJson(res, r) ==
  /\ res.returned /\ ~res.isError
  /\ Len(res.text) = 1 /\ res.text[1].k = "rawJson"
  /\ res.text[1].m = (IF IsSome(r.url) THEN "url" ELSE "")
  /\ IsSome(r.url) => res.text[1].s = Get(r.url)

MetadataDone(c) ==
  pc[c] = "done" /\ tool[c] = "get_image_metadata" /\ result[c].returned /\ ~result[c].isError
\* the lines of a text that are of the kinds K, in order
RECURSIVE LinesOf(_, _)
LinesOf(text, K) ==
  IF text = <<>> THEN <<>>
  ELSE (IF Head(text).k \in K THEN <<Head(text)>> ELSE <<>>) \o LinesOf(Tail(text), K)

\* C20: on success get_image_metadata issues GET /api/image/{id} and its result
\* lists the id, the category and one line per entry of resizedFiles in order,
\* with width x height exactly when the size name is in the size cache that
\* getSizeCache returned and the bare size name otherwise, also when the cache
\* is absent; with resizedFiles absent or empty it carries the "no resized
\* files" note instead.
C20_MetadataText ==
  \A c \in Calls :
    /\ (tool[c] = "get_image_metadata" /\ pc[c] = "primary") =>
         (req[c].method = "GET" /\ req[c].url = baseUrl \o <<"/api/image/", imageServiceId>>)
    /\ MetadataDone(c) =>
         LET text == result[c].text
             files == IF IsSome(metadata[c].resizedFiles) THEN Get(metadata[c].resizedFiles)
                      ELSE <<>>
             sizes == LinesOf(text, {"sizeWithDimensions", "sizeName"})
             cached(n) == IsSome(sizeCache) /\ n \in DOMAIN Get(sizeCache)
         IN  /\ LinesOf(text, {"heading"}) = <<Plain("heading", "Image Metadata")>>
             /\ LinesOf(text, {"imageId"}) = <<Plain("imageId", metadata[c].id)>>
             /\ LinesOf(text, {"category"}) = <<Plain("category", metadata[c].category)>>
             /\ Len(sizes) = Len(files)
             /\ \A i \in 1..Len(files) :
                  /\ sizes[i].s = files[i]
                  /\ sizes[i].k = "sizeWithDimensions" <=> cached(files[i])
                  /\ cached(files[i]) =>
                       (sizes[i].w = Get(sizeCache)[files[i]].width
                        /\ sizes[i].h = Get(sizeCache)[files[i]].height)
             /\ (Len(LinesOf(text, {"noResizedFiles"})) = 1) <=> (files = <<>>)
             /\ Len(LinesOf(text, {"noResizedFiles"})) <= 1

\* a result for the files small and thumb with a cache that has small only
C20_Witness ==
  \E c \in Calls :
    /\ MetadataDone(c)
    /\ LinesOf(result[c].text, {"sizeWithDimensions", "sizeName"})
         = <<Line("sizeWithDimensions", "small", 2, 2, ""), Plain("sizeName", "thumb")>>

\* the HTTP request of call c's tool settles in this step (with settled'[c])
SettlesOwnRequest(c) == pc[c] \in {"primary", "list"} /\ pc'[c] # pc[c]

\* C8: whatever the tool, when its HTTP request fails with a transport error or
\* a non-2xx status its result is a text block flagged isError.
C8_RequestFailureIsError ==
  [][\A c \in Calls :
       (SettlesOwnRequest(c) /\ settled'[c].kind \in {"transportError", "nonOk"}) =>
         (result'[c].returned /\ result'[c].isError /\ Len(result'[c].text) > 0)]_vars

\* C9: every invocation of every tool returns a result holding a text block.
C9_AlwaysATextResult ==
  \A c \in Calls : pc[c] = "done" => (result[c].returned /\ Len(result[c].text) > 0)

\* C10: on a successful category list of n categories the list_categories
\* result has a heading for each of the n categories and, under each, a line
\* for each of its sizes.
C10_HeadingPerCategory ==
  [][\A c \in Calls :
       (pc[c] = "list" /\ pc'[c] = "done" /\ Succeeds(settled'[c])) =>
         LET text == result'[c].text
             categories == settled'[c].categories
             lines(k) == {i \in 1..Len(text) : text[i].k = k}
         IN  /\ Cardinality(lines("categoryHeading")) = Len(categories)
             /\ Cardinality(lines("categorySize"))
                  = Cardinality(Positions(categories, FALSE))]_vars

(* ===================== properties of the file read ===================== *)
\* C21: when reading the local file fails in upload_image or
\* upload_and_resize_image, the handler returns one error-flagged text block
\* and the invocation has issued no HTTP request.
C21_ReadFailureIsError ==
  \A c \in Calls : fileRead[c] = "failed" =>
    /\ tool[c] \in UploadTools
    /\ pc[c] = "done"
    /\ result[c].returned /\ result[c].isError /\ Len(result[c].text) = 1
    /\ issued[c] = <<>> /\ req[c] = NoRequest

\* upload_image has just returned its error, the file unread, while another
\* call's request is in flight
C21_Witness ==
  \E c, d \in Calls :
    /\ fileRead[c] = "failed" /\ tool[c] = "upload_image" /\ result[c].isError
    /\ pc[d] = "primary"

(* =================== properties of transcode_image ===================== *)
TranscodeDone(c) ==
  pc[c] = "done" /\ tool[c] = "transcode_image" /\ result[c].returned /\ ~result[c].isError

\* C24: transcode_image issues POST /api/image/{id}/transcode; on a metadata
\* response its text is, after the heading line, the text
\* buildImageMetadataResponseText gives get_image_metadata for the same
\* metadata and the same mapping from getSizeCache; and it calls getSizeCache
\* exactly when that function would (resizedFiles non-empty), which records
\* the access and issues the category-list request as for any caller.
C24_TranscodeAsMetadata ==
  \A c \in Calls :
    /\ (tool[c] = "transcode_image" /\ pc[c] = "primary") =>
         /\ req[c].method = "POST"
         /\ req[c].url = baseUrl \o <<"/api/image/", imageServiceId, "/transcode">>
    /\ TranscodeDone(c) =>
         /\ Head(result[c].text) = Plain("heading", "Image Transcode Result")
         /\ Tail(result[c].text) =
              Tail(buildImageMetadataResponseText(metadata[c], "Image Metadata", sizeCache))
         /\ IsSome(gsc[c]) <=> hasResizedFiles(metadata[c])
         /\ IsSome(gsc[c]) => lastAccessedAt = Some(now)
         /\ Len(issued[c]) = (IF IsSome(gsc[c]) /\ Get(gsc[c]).refresh THEN 2 ELSE 1)
         /\ Len(issued[c]) = 2 =>
              issued[c][2] = makeApiCall(baseUrl, apiKey, categoryListRequest)

\* transcode_image has refreshed the cache and lists small with its
\* dimensions and thumb, which the cache does not have, by name
C24_Witness ==
  \E c \in Calls :
    /\ TranscodeDone(c) /\ IsSome(gsc[c]) /\ Get(gsc[c]).refresh
    /\ LinesOf(result[c].text, {"sizeWithDimensions", "sizeName"})
         = <<Line("sizeWithDimensions", "small", 1, 1, ""), Plain("sizeName", "thumb")>>

(* ================ properties of overlapping refreshes ================== *)
\* call c has returned from a getSizeCache call that refreshed
RefreshDone(c) == pc[c] = "done" /\ IsSome(gsc[c]) /\ Get(gsc[c]).refresh
\* call c has returned and its category-list request (of getSizeCache or of
\* list_categories) has settled
ListDone(c) == pc[c] = "done" /\ (tool[c] = "list_categories" \/ RefreshDone(c))
\* the mapping getCategories builds from a category list, whatever the cache held
Mapping(categories) == LastWins(categories, Positions(categories, TRUE))

\* C22: a call that finds the cache missing or stale issues a category-list
\* request of its own, also while another call's is in flight; a call whose
\* refresh overlapped another's returns a result without the error flag; and
\* when the response of its refresh carries the same categories as the
\* overlapping response processed before it, the cache is the mapping one
\* refresh with those categories builds.
C22_RedundantRefreshIsBenign ==
  \A c \in Calls :
    /\ pc[c] = "refresh" =>
         /\ req[c] = makeApiCall(baseUrl, apiKey, categoryListRequest)
         /\ issued[c][Len(issued[c])] = req[c]
    /\ (RefreshDone(c) /\ (IsSome(processedMeanwhile[c]) \/ ListInFlight(c) # {})) =>
         (result[c].returned /\ ~result[c].isError)
    /\ (RefreshDone(c) /\ IsSome(processedMeanwhile[c]) /\
        Get(processedMeanwhile[c]).categories = Some(settled[c].categories)) =>
         sizeCache = Some(Mapping(settled[c].categories))

\* two getSizeCache calls found the cache missing or stale, both refreshed,
\* both responses carried banner alone; the second call has returned its text
C22_Witness ==
  \E c \in Calls :
    /\ RefreshDone(c) /\ ~result[c].isError
    /\ IsSome(processedMeanwhile[c]) /\ Get(processedMeanwhile[c]).refresh
    /\ Get(processedMeanwhile[c]).categories = Some(settled[c].categories)
    /\ Len(settled[c].categories) = 1 /\ settled[c].categories[1].name = "banner"
    /\ DOMAIN Get(sizeCache) = {"small"}

\* C28: when category-list requests overlap, the cache after the one processed
\* last holds the mapping of its response if getCategories got through it,
\* whether its request was issued before or after the other, and otherwise
\* the mapping of the response processed before it.
C28_LastProcessedWins ==
  \A c \in Calls :
    (ListDone(c) /\ IsSome(processedMeanwhile[c])) =>
      IF Succeeds(settled[c])
      THEN sizeCache = Some(Mapping(settled[c].categories))
      ELSE IsSome(Get(processedMeanwhile[c]).categories) =>
             sizeCache = Some(Mapping(Get(Get(processedMeanwhile[c]).categories)))

\* the refresh issued first was processed last: the mapping of avatar, which
\* the refresh issued after it had loaded, has given way to that of banner
C28_Witness ==
  \E c \in Calls :
    /\ RefreshDone(c) /\ Succeeds(settled[c])
    /\ IsSome(processedMeanwhile[c])
    /\ ~Get(processedMeanwhile[c]).issuedFirst /\ Get(processedMeanwhile[c]).refresh
    /\ Get(processedMeanwhile[c]).categories = Some(<<Category("avatar", <<Size("small", 1), Size("large", 1)>>)>>)
    /\ DOMAIN Get(sizeCache) = {"small"} /\ Get(sizeCache)["small"].width = 2

(* ======================== properties of progress ======================= *)
\* call c waits for its file read or for an HTTP response
Pending(c) == pc[c] \in {"readFile", "primary", "refresh", "list"}

\* C23: a call that waits for its file read or its HTTP response can always
\* go on once the operation settles, whatever the other calls wait for (no
\* lock, no shared state holds it back); and a call whose operations settle
\* returns a result, even if those of the other calls never do.
C23_OnlyOwnCallBlocks ==
  /\ [](\A c \in Calls : (Pending(c) /\ Delivered) => ENABLED Completes(c))
  /\ \A c \in Calls : WF_vars(Completes(c)) => (Pending(c) ~> pc[c] = "done")

\* a file read hangs; meanwhile another call has gone through its request and
\* its refresh and returned its text
C23_Witness ==
  \E c, d \in Calls :
    /\ pc[d] = "readFile"
    /\ RefreshDone(c) /\ result[c].returned /\ ~result[c].isError

(* ================== properties of the cache variables ================== *)
\* an optional time that is set stays set and does not go back
NeverDecreases(old, new) == IsSome(old) => (IsSome(new) /\ Get(new) >= Get(old))

\* C25: in every reachable state lastUpdatedAt is set if and only if sizeCache
\* is set; sizeCache once set stays set; lastUpdatedAt and lastAccessedAt
\* never decrease.
C25_CacheVariables ==
  /\ [](IsSome(lastUpdatedAt) <=> IsSome(sizeCache))
  /\ [][/\ IsSome(sizeCache) => IsSome(sizeCache')
        /\ NeverDecreases(lastUpdatedAt, lastUpdatedAt')
        /\ NeverDecreases(lastAccessedAt, lastAccessedAt')]_vars

\* the cache was loaded, accessed, and loaded again later by list_categories:
\* both times are set and the time of the refresh has moved on
C25_Witness ==
  \E c \in Calls :
    /\ pc[c] = "done" /\ tool[c] = "list_categories" /\ Succeeds(settled[c])
    /\ IsSome(sizeCache) /\ lastUpdatedAt = Some(now)
    /\ IsSome(lastAccessedAt) /\ Get(lastAccessedAt) < now
    /\ prevGetPopulated

(* ===================== properties of list_categories =================== *)
\* the request of list_categories settles in this step (with settled'[c])
SettlesList(c) == pc[c] = "list" /\ pc'[c] = "done"

\* C26: a list_categories call issues one category-list request, however
\* fresh the cache is; when getCategories gets through the response, sizeCache
\* becomes its mapping and lastUpdatedAt the current time, also less than 5
\* minutes after the last refresh; and in every case lastAccessedAt is left as
\* it was, so that a populated cache is exactly as stale for the next
\* getSizeCache call as it was before.
C26_ListCategoriesRefreshes ==
  /\ [](\A c \in Calls : tool[c] = "list_categories" =>
          issued[c] = <<makeApiCall(baseUrl, apiKey, categoryListRequest)>>)
  /\ [][\A c \in Calls : SettlesList(c) =>
          /\ Succeeds(settled'[c]) =>
               /\ sizeCache' = Some(Mapping(settled'[c].categories))
               /\ lastUpdatedAt' = Some(now)
          /\ lastAccessedAt' = lastAccessedAt
          /\ IsSome(sizeCache) =>
               (isStaleOrMissing(sizeCache', lastAccessedAt', now)
                  <=> isStaleOrMissing(sizeCache, lastAccessedAt, now))]_vars

\* getSizeCache returned the mapping less than 5 minutes ago, by its own rule
\* the cache is fresh, and list_categories has just loaded it again
C26_Witness ==
  \E c \in Calls :
    /\ pc[c] = "done" /\ tool[c] = "list_categories" /\ Succeeds(settled[c])
    /\ lastUpdatedAt = Some(now)
    /\ prevGetPopulated /\ lastAccessedAt = prevGetEnd
    /\ now - Get(lastAccessedAt) < fiveMinutesInMs
    /\ ~isStaleOrMissing(sizeCache, lastAccessedAt, now)

(* ==================== properties of a failed refresh =================== *)
\* call c enters getSizeCache in this step, the latest getSizeCache call to
\* have returned before it having refreshed in vain
NextAfterFailure(c) == StartsGetSizeCache(c) /\ prevGetFailed
\* that call returned no more than 5 minutes ago
WithinFiveMinutes == now - Get(prevGetEnd) <= fiveMinutesInMs
\* a getSizeCache call whose refresh failed has just returned
FailedRefreshDone(c) == RefreshDone(c) /\ ~Succeeds(settled[c])

\* C27 (as stated): a getSizeCache call whose refresh fails still advances
\* lastAccessedAt; if the cache was populated, the next getSizeCache call made
\* within 5 minutes returns the mapping without attempting a refresh; if the
\* cache was absent, the next getSizeCache call attempts a refresh, however
\* soon it comes.
C27_AsStated ==
  /\ [](\A c \in Calls : FailedRefreshDone(c) => lastAccessedAt = Some(now))
  /\ [][\A c \in Calls : NextAfterFailure(c) =>
          /\ (prevGetPopulated /\ WithinFiveMinutes) =>
               /\ ~Get(gsc'[c]).refresh
               /\ result'[c] = TextResult(responseText(tool[c], settled'[c].metadata, sizeCache))
          /\ ~prevGetPopulated => Get(gsc'[c]).refresh]_vars

\* C27 (amended): a getSizeCache call whose refresh fails still advances
\* lastAccessedAt; the next getSizeCache call, if it is made within 5 minutes
\* and finds a mapping (the old one, or one that list_categories or an
\* overlapping refresh has loaded since), returns that mapping without
\* attempting a refresh; if it finds no mapping it attempts a refresh, however
\* soon it comes.
C27_FailedRefreshTiming ==
  /\ [](\A c \in Calls : FailedRefreshDone(c) => lastAccessedAt = Some(now))
  /\ [][\A c \in Calls : NextAfterFailure(c) =>
          /\ (IsSome(sizeCache) /\ WithinFiveMinutes) =>
               /\ ~Get(gsc'[c]).refresh
               /\ result'[c] = TextResult(responseText(tool[c], settled'[c].metadata, sizeCache))
          /\ sizeCache = None => Get(gsc'[c]).refresh]_vars

\* the cache had been loaded before the call came and was stale; the refresh
\* has failed, the mapping is still there and the access has been recorded
C27_Witness ==
  \E c \in Calls :
    /\ FailedRefreshDone(c) /\ prevGetFailed
    /\ IsSome(sizeCache) /\ Get(lastUpdatedAt) < Get(gsc[c]).at
    /\ lastAccessedAt = Some(now) /\ prevGetEnd = Some(now)

(* ============== properties of the calls that skip the cache ============ *)
\* the primary request of call c (not list_categories) settles in this step
SettlesPrimary(c) == pc[c] = "primary" /\ pc'[c] # "primary"
\* the response is a failure: transport error, non-2xx status, unparsable body
Failed(r) == r.kind \in {"transportError", "nonOk", "badJson"}
\* the request is the category-list request
IsCategoryList(request) == request = makeApiCall(baseUrl, apiKey, categoryListRequest)

\* C29: a call whose primary request fails, a get_resized_image call, and a
\* metadata, transcode or upload call whose response has no resized files
\* return in the step in which the response arrives, leave sizeCache,
\* lastUpdatedAt and lastAccessedAt as they were and issue no category-list
\* request; the three variables change only when a category-list response
\* arrives or getSizeCache returns, and a call other than list_categories
\* calls getSizeCache only holding a response with resized files.
C29_CacheUntouched ==
  /\ [][\A c \in Calls :
          (SettlesPrimary(c) /\
           (Failed(settled'[c]) \/ tool[c] = "get_resized_image"
              \/ ~hasResizedFiles(settled'[c].metadata))) =>
            /\ pc'[c] = "done"
            /\ UNCHANGED cacheVars
            /\ issued'[c] = issued[c]]_vars
  /\ [][cacheVars' # cacheVars =>
          \E c \in Calls : SettlesCategoryList(c) \/ ReturnsFromGetSizeCache(c)]_vars
  /\ [](\A c \in Calls :
          (IsSome(gsc[c]) \/ \E i \in 1..Len(issued[c]) : IsCategoryList(issued[c][i])) =>
            \/ tool[c] = "list_categories"
            \/ tool[c] # "get_resized_image" /\ hasResizedFiles(metadata[c]))

\* the cache is stale; get_image_metadata got metadata without resized files
\* and has returned: one request issued, the last access as long ago as before
C29_Witness ==
  \E c \in Calls :
    /\ pc[c] = "done" /\ tool[c] = "get_image_metadata"
    /\ settled[c].kind = "ok" /\ ~hasResizedFiles(settled[c].metadata)
    /\ Len(issued[c]) = 1 /\ gsc[c] = None
    /\ IsSome(sizeCache) /\ IsSome(lastAccessedAt)
    /\ now - Get(lastAccessedAt) > fiveMinutesInMs

(* ======================= the API key in the log ======================== *)

\* the object logged after "Request headers:": the headers of the fetch with
\* "X-API-Key" replaced by "***"
loggedHeaders(headers) ==
  [h \in DOMAIN headers |-> IF h = "X-API-Key" THEN <<"***">> ELSE headers[h]]

\* the lines makeApiCall logs before a fetch: the method and url, then the
\* masked headers
requestLog(fetch) ==
  << LogLine("info", "apiCall", fetch.url),
     LogLine("debug", "requestHeaders", loggedHeaders(fetch.headers)) >>

\* the key stands complete somewhere in a text
ContainsKey(text, key) ==
  \E i \in 1..Len(text) : OccursAt(text, key, i)

\* a logged line holds the complete key, in its text or in a header it shows
ShowsKey(line, key) ==
  IF line.k = "requestHeaders"
  THEN \E h \in DOMAIN line.v : ContainsKey(line.v[h], key)
  ELSE ContainsKey(line.v, key)

\* C30: with a configured API key, no line the process has logged holds the
\* complete key: neither a line of the startup log, where the key appears as
\* its first 8 characters, nor a line logged for a request, where the
\* "X-API-Key" header appears as "***".
C30_KeyNeverLogged ==
  apiKey # <<>> =>
    /\ \A i \in 1..Len(startupLog) : ~ShowsKey(startupLog[i], apiKey)
    /\ \A c \in Calls : \A i \in 1..Len(issued[c]) :
         \A j \in 1..2 : ~ShowsKey(requestLog(issued[c][i])[j], apiKey)

\* the request lines alone: a fetch carrying the key has been logged and none
\* of its lines holds the key
C30_RequestLinesMasked ==
  apiKey # <<>> =>
    \A c \in Calls : \A i \in 1..Len(issued[c]) :
      /\ issued[c][i].headers["X-API-Key"] = apiKey
      /\ \A j \in 1..2 : ~ShowsKey(requestLog(issued[c][i])[j], apiKey)
====
